---- MODULE Spec2Model ----
(***************************************************************************)
(* A model of the chatbot: the FastAPI gateway (backend/main.py) and the   *)
(* Streamlit session client (frontend/streamlit_app.py).                   *)
(*                                                                         *)
(* Text is a sequence of atoms; an atom is a character or a literal piece  *)
(* of a format string.  A Python dict is a record whose DOMAIN is the set  *)
(* of keys present, so d.get(k, default) and d[k] (KeyError) are decided   *)
(* by k \in DOMAIN d.  A list is a sequence, l[0] on an empty list is an   *)
(* IndexError.  A call that may raise yields an outcome record:            *)
(* [kind |-> "return", value |-> v] or [kind |-> "raise", exc |-> e].      *)
(***************************************************************************)
EXTENDS Integers, Sequences, FiniteSets, TLC

VARIABLES gwRequest, gwUpstream, gwResponse, gwCalls, reqs,
          mode, messages, pc, user_input, response, answer, sources,
          words, idx, current_text, placeholder, result, display,
          clearHist, sent, submitted

gwVars == <<gwRequest, gwUpstream, gwResponse, gwCalls, reqs>>

clVars == <<mode, messages, pc, user_input, response, answer, sources,
            words, idx, current_text, placeholder, result, display,
            clearHist, sent, submitted>>

vars == <<gwVars, clVars>>

(***************************************************************************)
(* Bounds                                                                  *)
(***************************************************************************)
\* longest text the remote model generates
MaxTextLen == 3

\* largest num_results a caller of /kb-retrieve passes
MaxNumResults == 3

\* most submissions the session holds between two clears
MaxTurns == 2

\* most requests the gateway has in flight at once
MaxRequests == 2

(***************************************************************************)
(* Text                                                                    *)
(***************************************************************************)
Chars == {"a", " "}

SeqsUpTo(S, n) == UNION {[1..k -> S] : k \in 0..n}

\* the texts the remote model may generate
Texts == SeqsUpTo(Chars, MaxTextLen)

IsPrefix(s, t) == Len(s) <= Len(t) /\ SubSeq(t, 1, Len(s)) = s

\* Python's `sub in s`
Contains(s, sub) == \E i \in 0..(Len(s) - Len(sub)) : SubSeq(s, i + 1, i + Len(sub)) = sub

Return(v) == [kind |-> "return", value |-> v]

Raise(e) == [kind |-> "raise", exc |-> e]

\* an exception of a library or of the interpreter: its type and str(e)
Exc(type, msg) == [type |-> type, msg |-> msg]

\* fastapi.HTTPException(status_code, detail)
HTTPException(status_code, detail) == [type |-> "HTTPException", status_code |-> status_code, detail |-> detail]

StatusText(status_code) == CASE status_code = 200 -> "200" [] status_code = 500 -> "500" [] OTHER -> "???"

\* str(e): starlette's HTTPException prints "<status_code>: <detail>", any
\* other exception prints its message
Str(e) == IF e.type = "HTTPException" THEN <<StatusText(e.status_code), ": ">> \o e.detail ELSE e.msg

\* d.get(k, default)
Get(d, k, default) == IF k \in DOMAIN d THEN d[k] ELSE default

EmptyDict == [k \in {} |-> 0]

\* a Python str held where a dict may be held as well (isinstance decides)
PyStr(text) == [str |-> text]

\* isinstance(v, dict)
IsDict(v) == "str" \notin DOMAIN v

(***************************************************************************)
(* Gateway: what the remote services may answer                            *)
(***************************************************************************)
\* the parsed body of client.invoke_model: well formed with one text block,
\* an empty content list, or no content key at all
ModelBodies == {[content |-> <<[type |-> "text", text |-> t]>>] : t \in Texts} \cup {[content |-> <<>>], [type |-> "error"]}

\* client.invoke_model either raises (botocore ClientError, a connection
\* error) or hands back a body
ModelOutcomes == {Return(b) : b \in ModelBodies} \cup {Raise(Exc("ClientError", <<"AccessDenied">>)), Raise(Exc("EndpointConnectionError", <<"timeout">>))}

NoCall == [kind |-> "none"]

\* one match of the retrieval service; every key may be absent
KbMatches == { [content |-> [text |-> <<"a">>], score |-> 2, metadata |-> {<<"source", "s3">>}],
               [content |-> [text |-> <<" ">>], score |-> 1],
               [content |-> [type |-> "TEXT"], metadata |-> {<<"source", "s3">>}],
               [score |-> 1, metadata |-> {}],
               [content |-> [text |-> <<"a">>]],
               EmptyDict }

\* bedrock_knowledge_base.retrieve answers a request with at most
\* numberOfResults matches, or with a reply that lacks the key, or raises
KbOutcomes(kb_request) == {Return([retrievalResults |-> r]) : r \in SeqsUpTo(KbMatches, kb_request.retrievalConfiguration.vectorSearchConfiguration.numberOfResults)} \cup {Return([nextToken |-> "t"]), Raise(Exc("ClientError", <<"Throttled">>)), Raise(Exc("EndpointConnectionError", <<"timeout">>))}

WellFormedCurrent == [temp_C |-> "21", weatherDesc |-> <<[value |-> "Sunny"]>>, humidity |-> "40", windspeedKmph |-> "7"]

\* the JSON payloads of wttr.in: well formed, or with a key absent at some
\* depth, or with an empty list where a record is expected
WeatherPayloads == { [current_condition |-> <<WellFormedCurrent>>],
                     [nearest_area |-> <<>>],
                     [current_condition |-> <<>>],
                     [current_condition |-> <<[weatherDesc |-> <<[value |-> "Sunny"]>>, humidity |-> "40", windspeedKmph |-> "7"]>>],
                     [current_condition |-> <<[temp_C |-> "21", humidity |-> "40", windspeedKmph |-> "7"]>>],
                     [current_condition |-> <<[temp_C |-> "21", weatherDesc |-> <<>>, humidity |-> "40", windspeedKmph |-> "7"]>>],
                     [current_condition |-> <<[temp_C |-> "21", weatherDesc |-> <<[lang |-> "en"]>>, humidity |-> "40", windspeedKmph |-> "7"]>>],
                     [current_condition |-> <<[temp_C |-> "21", weatherDesc |-> <<[value |-> "Sunny"]>>, windspeedKmph |-> "7"]>>],
                     [current_condition |-> <<[temp_C |-> "21", weatherDesc |-> <<[value |-> "Sunny"]>>, humidity |-> "40"]>>] }

\* requests.get / raise_for_status either raise a RequestException
\* (connection failure, HTTP error status) or hand back a JSON payload
WeatherOutcomes == {Return(p) : p \in WeatherPayloads} \cup {Raise(Exc("ConnectionError", <<"connection refused">>)), Raise(Exc("HTTPError", <<"404 Not Found">>))}

IsRequestException(e) == e.type \in {"ConnectionError", "HTTPError", "Timeout"}

(***************************************************************************)
(* Gateway: backend/main.py                                                *)
(***************************************************************************)
knowledge_base_id == "JGMPKF6VEI"

\* the default of num_results
DefaultNumResults == 3

\* `if system:` holds of a non-empty text; None and "" are both <<>> here
create_body_json(msgs, max_tokens, system, temperature) == IF system # <<>> THEN [anthropic_version |-> "bedrock-2023-05-31", max_tokens |-> max_tokens, temperature |-> temperature, messages |-> msgs, system |-> system] ELSE [anthropic_version |-> "bedrock-2023-05-31", max_tokens |-> max_tokens, temperature |-> temperature, messages |-> msgs]

\* message['content'][0]['text'] of a parsed body
FirstText(message) ==
  IF "content" \notin DOMAIN message THEN Raise(Exc("KeyError", <<"'content'">>))
  ELSE IF Len(message.content) = 0 THEN Raise(Exc("IndexError", <<"list index out of range">>))
  ELSE IF "text" \notin DOMAIN message.content[1] THEN Raise(Exc("KeyError", <<"'text'">>))
  ELSE Return(message.content[1].text)

\* chat: one invoke_model call; any exception of the call or of reading its
\* body becomes HTTPException(500, "Error invoking model: <str(e)>").
\* `up` is what the remote model answers to the one call.
chat(msgs, system, temperature, max_tokens, up) ==
  LET body_json == create_body_json(msgs, max_tokens, system, temperature)
      calls == <<[service |-> "invoke_model", body |-> body_json]>>
      got == IF up.kind = "raise" THEN up ELSE FirstText(up.value)
  IN  [calls |-> calls,
       out |-> IF got.kind = "return" THEN got
               ELSE Raise(HTTPException(500, <<"Error invoking model: ">> \o Str(got.exc)))]

\* FastAPI's answer to a handler outcome: the returned body with status 200,
\* or the HTTPException's status with {"detail": detail}
ToHttp(out) == IF out.kind = "return" THEN [status_code |-> 200, json |-> out.value] ELSE [status_code |-> out.exc.status_code, json |-> [detail |-> out.exc.detail]]

\* chat_endpoint with the exception text left out of the detail
chat_endpoint_no_text(request, up) ==
  LET msgs == [i \in 1..Len(request.messages) |-> [role |-> request.messages[i].role, content |-> request.messages[i].content]]
      c == chat(msgs, request.system, request.temperature, request.max_tokens, up)
  IN  [calls |-> c.calls,
       out |-> IF c.out.kind = "return" THEN Return([response |-> c.out.value])
               ELSE Raise(HTTPException(500, <<"Error in chat">>))]

\* POST /chat
chat_endpoint(request, up) ==
  LET msgs == [i \in 1..Len(request.messages) |-> [role |-> request.messages[i].role, content |-> request.messages[i].content]]
      c == chat(msgs, request.system, request.temperature, request.max_tokens, up)
  IN  [calls |-> c.calls,
       out |-> IF c.out.kind = "return" THEN Return([response |-> c.out.value])
               ELSE Raise(HTTPException(500, <<"Error in chat: ">> \o Str(c.out.exc)))]

\* get_current_weather: the snapshot, or a string in its place
get_current_weather(location, up) ==
  LET data == up.value
      current == data.current_condition[1]
  IN  IF up.kind = "raise"
      THEN IF IsRequestException(up.exc) THEN Return(PyStr(<<"Request failed: ">> \o Str(up.exc))) ELSE up
      ELSE IF "current_condition" \notin DOMAIN data THEN Return(PyStr(<<"Could not parse weather data.">>))
      ELSE IF Len(data.current_condition) = 0 THEN Raise(Exc("IndexError", <<"list index out of range">>))
      ELSE IF "temp_C" \notin DOMAIN current THEN Return(PyStr(<<"Could not parse weather data.">>))
      ELSE IF "weatherDesc" \notin DOMAIN current THEN Return(PyStr(<<"Could not parse weather data.">>))
      ELSE IF Len(current.weatherDesc) = 0 THEN Raise(Exc("IndexError", <<"list index out of range">>))
      ELSE IF "value" \notin DOMAIN current.weatherDesc[1] THEN Return(PyStr(<<"Could not parse weather data.">>))
      ELSE IF "humidity" \notin DOMAIN current THEN Return(PyStr(<<"Could not parse weather data.">>))
      ELSE IF "windspeedKmph" \notin DOMAIN current THEN Return(PyStr(<<"Could not parse weather data.">>))
      ELSE Return([temperature |-> current.temp_C, description |-> current.weatherDesc[1].value, humidity |-> current.humidity, wind_speed |-> current.windspeedKmph])

\* POST /weather
weather_endpoint(request, up) ==
  LET w == get_current_weather(request.location, up)
  IN  [calls |-> <<[service |-> "wttr.in", location |-> request.location]>>,
       out |-> IF w.kind = "return" THEN Return([weather |-> w.value, location |-> request.location])
               ELSE Raise(HTTPException(500, <<"Error getting weather: ">> \o Str(w.exc)))]

\* create_kb_request with num_results ignored: the default count is sent
create_kb_request_default(kb_id, query, num_results) == [knowledgeBaseId |-> kb_id, retrievalQuery |-> [text |-> query], retrievalConfiguration |-> [vectorSearchConfiguration |-> [numberOfResults |-> 3]]]

create_kb_request(kb_id, query, num_results) == [knowledgeBaseId |-> kb_id, retrievalQuery |-> [text |-> query], retrievalConfiguration |-> [vectorSearchConfiguration |-> [numberOfResults |-> num_results]]]

\* the loop of kb_retrieve over the matches of the reply
RetrieveResults(matches) == [i \in 1..Len(matches) |-> [content |-> Get(Get(matches[i], "content", EmptyDict), "text", <<>>), score |-> Get(matches[i], "score", 0), metadata |-> Get(matches[i], "metadata", {})]]

\* POST /kb-retrieve?num_results=N
kb_retrieve(request, num_results, up) ==
  LET kb_request == create_kb_request(knowledge_base_id, request.query, num_results)
  IN  [calls |-> <<[service |-> "retrieve", request |-> kb_request]>>,
       out |-> IF up.kind = "raise"
               THEN IF up.exc.type = "ClientError"
                    THEN Raise(HTTPException(500, <<"AWS Bedrock error: ">> \o Str(up.exc)))
                    ELSE Raise(HTTPException(500, <<"Error retrieving from knowledge base: ">> \o Str(up.exc)))
               ELSE Return([results |-> RetrieveResults(Get(up.value, "retrievalResults", <<>>)), query |-> request.query])]

system_prompt == <<"You are a helpful assistant that answers questions based on the provided context. ...">>

user_prompt(context_text, query) == <<"Context from knowledge base:\n">> \o context_text \o <<"\n\nQuestion: ">> \o query \o <<"\n\nPlease provide a comprehensive answer based on the context provided.">>

\* the loop of kb_rag_query keeping only the documents that have a text
RECURSIVE RagLoopSkipsEmpty(_, _, _)
RagLoopSkipsEmpty(matches, retrieved_docs, context_text) ==
  IF matches = <<>> THEN [retrieved_docs |-> retrieved_docs, context_text |-> context_text]
  ELSE LET res == Head(matches)
           content == Get(Get(res, "content", EmptyDict), "text", <<>>)
       IN  IF content = <<>> THEN RagLoopSkipsEmpty(Tail(matches), retrieved_docs, context_text)
           ELSE RagLoopSkipsEmpty(Tail(matches), Append(retrieved_docs, [content |-> content, score |-> Get(res, "score", 0), metadata |-> Get(res, "metadata", {})]), context_text \o <<"Document: ">> \o content \o <<"\n\n">>)

\* the loop of kb_rag_query over the matches of the reply: each iteration
\* appends one document to retrieved_docs and its text to context_text
RECURSIVE RagLoop(_, _, _)
RagLoop(matches, retrieved_docs, context_text) ==
  IF matches = <<>> THEN [retrieved_docs |-> retrieved_docs, context_text |-> context_text]
  ELSE LET res == Head(matches)
           content == Get(Get(res, "content", EmptyDict), "text", <<>>)
           score == Get(res, "score", 0)
           metadata == Get(res, "metadata", {})
       IN  RagLoop(Tail(matches), Append(retrieved_docs, [content |-> content, score |-> score, metadata |-> metadata]), context_text \o <<"Document: ">> \o content \o <<"\n\n">>)

\* POST /kb-rag-query: retrieve with the default count, then chat with the
\* context; `kbUp` and `modelUp` are what the two remote services answer
kb_rag_query(request, kbUp, modelUp) ==
  LET kb_request == create_kb_request(knowledge_base_id, request.query, DefaultNumResults)
      kbCall == <<[service |-> "retrieve", request |-> kb_request]>>
      loop == RagLoop(Get(kbUp.value, "retrievalResults", <<>>), <<>>, <<>>)
      msgs == <<[role |-> "user", content |-> user_prompt(loop.context_text, request.query)]>>
      c == chat(msgs, system_prompt, "0.3", 1024, modelUp)
  IN  IF kbUp.kind = "raise"
      THEN [calls |-> kbCall,
            out |-> IF kbUp.exc.type = "ClientError"
                    THEN Raise(HTTPException(500, <<"AWS Bedrock error: ">> \o Str(kbUp.exc)))
                    ELSE Raise(HTTPException(500, <<"Error processing RAG query: ">> \o Str(kbUp.exc)))]
      ELSE [calls |-> kbCall \o c.calls,
            out |-> IF c.out.kind = "return"
                    THEN Return([answer |-> c.out.value, sources |-> loop.retrieved_docs, query |-> request.query])
                    ELSE Raise(HTTPException(500, <<"Error processing RAG query: ">> \o Str(c.out.exc)))]

(***************************************************************************)
(* Gateway: the requests a caller may send                                 *)
(***************************************************************************)
Queries == {<<"q">>, <<"w", " ", "q">>}

ChatHistories == {<<>>, <<[role |-> "user", content |-> <<"q">>]>>, <<[role |-> "user", content |-> <<"q">>], [role |-> "assistant", content |-> <<"a">>], [role |-> "user", content |-> <<"q">>]>>}

ChatRequests == [messages : ChatHistories, system : {<<>>, <<"sys">>}, temperature : {"0.5"}, max_tokens : {1024}]

QueryRequests == [query : Queries]

WeatherRequests == [location : Queries]

\* the requests in flight are numbered
Slots == 1..MaxRequests

\* a slot no request holds: a handler that is not running has no locals
Free == [pc |-> "free", endpoint |-> "none", request |-> EmptyDict, num_results |-> 0, kb |-> NoCall, model |-> NoCall, weather |-> NoCall, calls |-> <<>>, retrieved_docs |-> <<>>, context_text |-> <<>>, response |-> [status_code |-> 0]]

\* no request is being handled
GatewayIdle == gwRequest.endpoint = "none"

GatewayInit ==
  /\ gwRequest = [endpoint |-> "none"]
  /\ gwUpstream = [kb |-> NoCall, model |-> NoCall, weather |-> NoCall]
  /\ gwResponse = [status_code |-> 0]
  /\ gwCalls = <<>>
  /\ reqs = [i \in Slots |-> Free]

\* a POST /chat request is handled
ChatRequest ==
  /\ GatewayIdle
  /\ \E request \in ChatRequests, up \in ModelOutcomes :
      LET h == chat_endpoint(request, up)
      IN  /\ gwRequest' = [endpoint |-> "/chat", request |-> request]
          /\ gwUpstream' = [kb |-> NoCall, model |-> up, weather |-> NoCall]
          /\ gwCalls' = h.calls
          /\ gwResponse' = ToHttp(h.out)
          /\ UNCHANGED <<reqs, clVars>>

\* a POST /kb-retrieve request is handled
KbRetrieveRequest ==
  /\ GatewayIdle
  /\ \E request \in QueryRequests, num_results \in 1..MaxNumResults :
      \E up \in KbOutcomes(create_kb_request(knowledge_base_id, request.query, num_results)) :
        LET h == kb_retrieve(request, num_results, up)
        IN  /\ gwRequest' = [endpoint |-> "/kb-retrieve", request |-> request, num_results |-> num_results]
            /\ gwUpstream' = [kb |-> up, model |-> NoCall, weather |-> NoCall]
            /\ gwCalls' = h.calls
            /\ gwResponse' = ToHttp(h.out)
            /\ UNCHANGED <<reqs, clVars>>

\* a POST /kb-rag-query request is handled
KbRagRequest ==
  /\ GatewayIdle
  /\ \E request \in QueryRequests, modelUp \in ModelOutcomes :
      \E kbUp \in KbOutcomes(create_kb_request(knowledge_base_id, request.query, DefaultNumResults)) :
        LET h == kb_rag_query(request, kbUp, modelUp)
        IN  /\ kbUp.kind = "raise" => modelUp = CHOOSE o \in ModelOutcomes : TRUE
            /\ gwRequest' = [endpoint |-> "/kb-rag-query", request |-> request]
            /\ gwUpstream' = [kb |-> kbUp, model |-> IF Len(h.calls) = 2 THEN modelUp ELSE NoCall, weather |-> NoCall]
            /\ gwCalls' = h.calls
            /\ gwResponse' = ToHttp(h.out)
            /\ UNCHANGED <<reqs, clVars>>

\* a POST /weather request is handled
WeatherRequest ==
  /\ GatewayIdle
  /\ \E request \in WeatherRequests, up \in WeatherOutcomes :
      LET h == weather_endpoint(request, up)
      IN  /\ gwRequest' = [endpoint |-> "/weather", request |-> request]
          /\ gwUpstream' = [kb |-> NoCall, model |-> NoCall, weather |-> up]
          /\ gwCalls' = h.calls
          /\ gwResponse' = ToHttp(h.out)
          /\ UNCHANGED <<reqs, clVars>>

\* the response is sent; the gateway keeps nothing of the request
RequestDone ==
  /\ ~GatewayIdle
  /\ gwRequest' = [endpoint |-> "none"]
  /\ gwUpstream' = [kb |-> NoCall, model |-> NoCall, weather |-> NoCall]
  /\ gwResponse' = [status_code |-> 0]
  /\ gwCalls' = <<>>
  /\ UNCHANGED <<reqs, clVars>>

GatewayNext == ChatRequest \/ KbRetrieveRequest \/ KbRagRequest \/ WeatherRequest \/ RequestDone

(***************************************************************************)
(* Gateway: several requests in flight                                     *)
(*                                                                         *)
(* Each request in flight owns one slot that holds what its handler holds  *)
(* in local variables: the request, the remote calls issued so far, the    *)
(* replies received, the documents and the context.  A remote call is      *)
(* issued in one step and answered in a later one, so the steps of         *)
(* different requests interleave in every order.  The module-level names   *)
(* the handlers read (client, bedrock_knowledge_base, knowledge_base_id,   *)
(* model) are assigned at import and by no handler.                        *)
(***************************************************************************)
\* the requests the concurrent callers send
InFlightRequests ==
  {[endpoint |-> "/chat", request |-> [messages |-> <<[role |-> "user", content |-> <<"q">>]>>, system |-> <<>>, temperature |-> "0.5", max_tokens |-> 1024], num_results |-> 0]}
  \cup {[endpoint |-> "/kb-retrieve", request |-> [query |-> <<"q">>], num_results |-> DefaultNumResults]}
  \cup {[endpoint |-> "/kb-rag-query", request |-> r, num_results |-> 0] : r \in QueryRequests}
  \cup {[endpoint |-> "/weather", request |-> [location |-> <<"q">>], num_results |-> 0]}

\* what the remote services answer to the calls of the concurrent requests
InFlightModelOutcomes == {Return([content |-> <<[type |-> "text", text |-> <<"a">>]>>]), Return([content |-> <<>>]), Raise(Exc("ClientError", <<"AccessDenied">>))}

InFlightKbOutcomes == {Return([retrievalResults |-> <<>>]), Return([retrievalResults |-> <<[content |-> [text |-> <<"a">>], score |-> 2, metadata |-> {<<"source", "s3">>}]>>]), Raise(Exc("ClientError", <<"Throttled">>)), Raise(Exc("EndpointConnectionError", <<"timeout">>))}

InFlightWeatherOutcomes == {Return([current_condition |-> <<WellFormedCurrent>>]), Return([current_condition |-> <<>>]), Raise(Exc("ConnectionError", <<"connection refused">>))}

\* a request arrives and its handler starts
Accept(i) ==
  /\ reqs[i].pc = "free"
  /\ \E q \in InFlightRequests :
      reqs' = [reqs EXCEPT ![i] = [Free EXCEPT !.pc = "start", !.endpoint = q.endpoint, !.request = q.request, !.num_results = q.num_results]]
  /\ UNCHANGED <<gwRequest, gwUpstream, gwResponse, gwCalls, clVars>>

\* bedrock_knowledge_base.retrieve(**kb_request) is issued by kb_retrieve
\* or by kb_rag_query
IssueRetrieve(i) ==
  LET r == reqs[i]
      n == IF r.endpoint = "/kb-retrieve" THEN r.num_results ELSE DefaultNumResults
  IN  /\ r.pc = "start"
      /\ r.endpoint \in {"/kb-retrieve", "/kb-rag-query"}
      /\ reqs' = [reqs EXCEPT ![i] = [r EXCEPT !.pc = "retrieve", !.calls = Append(r.calls, [service |-> "retrieve", request |-> create_kb_request(knowledge_base_id, r.request.query, n)])]]
      /\ UNCHANGED <<gwRequest, gwUpstream, gwResponse, gwCalls, clVars>>

\* kb_rag_query goes on to the model although the retrieval raised
rag_after_retrieve_goes_on(r, up) ==
  IF up.kind = "raise"
  THEN [r EXCEPT !.pc = "retrieved", !.kb = up]
  ELSE LET loop == RagLoop(Get(up.value, "retrievalResults", <<>>), <<>>, <<>>)
       IN  [r EXCEPT !.pc = "retrieved", !.kb = up, !.retrieved_docs = loop.retrieved_docs, !.context_text = loop.context_text]

\* kb_rag_query from the answer of retrieve up to the call of chat: an
\* exception leaves through one of the two except branches, a reply is
\* turned into retrieved_docs and context_text
rag_after_retrieve(r, up) ==
  IF up.kind = "raise"
  THEN [r EXCEPT !.pc = "done", !.kb = up,
                 !.response = ToHttp(Raise(HTTPException(500, (IF up.exc.type = "ClientError" THEN <<"AWS Bedrock error: ">> ELSE <<"Error processing RAG query: ">>) \o Str(up.exc))))]
  ELSE LET loop == RagLoop(Get(up.value, "retrievalResults", <<>>), <<>>, <<>>)
       IN  [r EXCEPT !.pc = "retrieved", !.kb = up, !.retrieved_docs = loop.retrieved_docs, !.context_text = loop.context_text]

\* retrieve answers: kb_retrieve builds its response, kb_rag_query goes on
RetrieveReturns(i) ==
  LET r == reqs[i]
  IN  /\ r.pc = "retrieve"
      /\ \E up \in InFlightKbOutcomes :
          reqs' = [reqs EXCEPT ![i] = IF r.endpoint = "/kb-retrieve"
                                      THEN [r EXCEPT !.pc = "done", !.kb = up, !.response = ToHttp(kb_retrieve(r.request, r.num_results, up).out)]
                                      ELSE rag_after_retrieve(r, up)]
      /\ UNCHANGED <<gwRequest, gwUpstream, gwResponse, gwCalls, clVars>>

\* the messages and the system prompt a handler hands to chat
ChatArgs(r) ==
  IF r.endpoint = "/chat"
  THEN [msgs |-> [k \in 1..Len(r.request.messages) |-> [role |-> r.request.messages[k].role, content |-> r.request.messages[k].content]], system |-> r.request.system, temperature |-> r.request.temperature, max_tokens |-> r.request.max_tokens]
  ELSE [msgs |-> <<[role |-> "user", content |-> user_prompt(r.context_text, r.request.query)]>>, system |-> system_prompt, temperature |-> "0.3", max_tokens |-> 1024]

\* client.invoke_model(...) is issued: by chat_endpoint at once, by
\* kb_rag_query once the documents are retrieved
IssueInvokeModel(i) ==
  LET r == reqs[i]
      a == ChatArgs(r)
  IN  /\ \/ r.pc = "start" /\ r.endpoint = "/chat"
         \/ r.pc = "retrieved" /\ r.endpoint = "/kb-rag-query"
      /\ reqs' = [reqs EXCEPT ![i] = [r EXCEPT !.pc = "invoke_model", !.calls = Append(r.calls, [service |-> "invoke_model", body |-> create_body_json(a.msgs, a.max_tokens, a.system, a.temperature)])]]
      /\ UNCHANGED <<gwRequest, gwUpstream, gwResponse, gwCalls, clVars>>

\* retrieved_docs kept in one place for all requests
retrieved_docs_shared(i) == reqs[1].retrieved_docs

\* retrieved_docs is a local list of the running kb_rag_query
retrieved_docs_local(i) == reqs[i].retrieved_docs

\* kb_rag_query from the answer of chat to its response
rag_after_invoke(i, up) ==
  LET r == reqs[i]
      a == ChatArgs(r)
      c == chat(a.msgs, a.system, a.temperature, a.max_tokens, up)
  IN  [r EXCEPT !.pc = "done", !.model = up,
                !.response = ToHttp(IF c.out.kind = "return"
                                    THEN Return([answer |-> c.out.value, sources |-> retrieved_docs_local(i), query |-> r.request.query])
                                    ELSE Raise(HTTPException(500, <<"Error processing RAG query: ">> \o Str(c.out.exc))))]

\* invoke_model answers: the handler builds its response
InvokeModelReturns(i) ==
  LET r == reqs[i]
  IN  /\ r.pc = "invoke_model"
      /\ \E up \in InFlightModelOutcomes :
          reqs' = [reqs EXCEPT ![i] = IF r.endpoint = "/chat"
                                      THEN [r EXCEPT !.pc = "done", !.model = up, !.response = ToHttp(chat_endpoint(r.request, up).out)]
                                      ELSE rag_after_invoke(i, up)]
      /\ UNCHANGED <<gwRequest, gwUpstream, gwResponse, gwCalls, clVars>>

\* requests.get(url) is issued by get_current_weather
IssueWeather(i) ==
  LET r == reqs[i]
  IN  /\ r.pc = "start"
      /\ r.endpoint = "/weather"
      /\ reqs' = [reqs EXCEPT ![i] = [r EXCEPT !.pc = "wttr.in", !.calls = Append(r.calls, [service |-> "wttr.in", location |-> r.request.location])]]
      /\ UNCHANGED <<gwRequest, gwUpstream, gwResponse, gwCalls, clVars>>

\* wttr.in answers: weather_endpoint builds its response
WeatherReturns(i) ==
  LET r == reqs[i]
  IN  /\ r.pc = "wttr.in"
      /\ \E up \in InFlightWeatherOutcomes :
          reqs' = [reqs EXCEPT ![i] = [r EXCEPT !.pc = "done", !.weather = up, !.response = ToHttp(weather_endpoint(r.request, up).out)]]
      /\ UNCHANGED <<gwRequest, gwUpstream, gwResponse, gwCalls, clVars>>

\* the response is sent and the handler's locals are gone
Respond(i) ==
  /\ reqs[i].pc = "done"
  /\ reqs' = [reqs EXCEPT ![i] = Free]
  /\ UNCHANGED <<gwRequest, gwUpstream, gwResponse, gwCalls, clVars>>

ConcurrentNext ==
  \E i \in Slots :
    \/ Accept(i)
    \/ IssueRetrieve(i)
    \/ RetrieveReturns(i)
    \/ IssueInvokeModel(i)
    \/ InvokeModelReturns(i)
    \/ IssueWeather(i)
    \/ WeatherReturns(i)
    \/ Respond(i)

(***************************************************************************)
(* Client: frontend/streamlit_app.py                                       *)
(*                                                                         *)
(* The emoji of the source are written as ASCII atoms: CrossMark is the    *)
(* cross-mark emoji of the error messages, SunEmoji the sun-behind-cloud   *)
(* emoji of the weather text, Cursor the dot shown while typing.           *)
(***************************************************************************)
CrossMark == "(x)"

SunEmoji == "(sun)"

Cursor == "(dot)"

Modes == {"Direct Chat", "Knowledge Base RAG", "Weather"}

\* the sidebar sliders are left at their defaults
creativity == "0.7"

max_tokens == 1024

\* what the user may type into the form; <<>> is an empty submission
UserInputs == {<<>>, <<"q">>}

\* st.session_state.messages holds (sender, msg_data) pairs; msg_data is a
\* Python str or, for a RAG answer, the dict {"answer", "sources"}
Entry(sender, msg_data) == [sender |-> sender, msg_data |-> msg_data]

\* format_messages_for_backend keeping the You entries only
RECURSIVE format_messages_user_only(_)
format_messages_user_only(msgs) ==
  IF msgs = <<>> THEN <<>>
  ELSE IF Head(msgs).sender = "You" THEN <<[role |-> "user", content |-> Head(msgs).msg_data.str]>> \o format_messages_user_only(Tail(msgs))
  ELSE format_messages_user_only(Tail(msgs))

\* format_messages_for_backend: You entries become user messages, Bot
\* entries whose msg_data is a str become assistant messages
RECURSIVE format_messages_for_backend(_)
format_messages_for_backend(msgs) ==
  IF msgs = <<>> THEN <<>>
  ELSE LET e == Head(msgs)
           rest == format_messages_for_backend(Tail(msgs))
       IN  IF e.sender = "You" THEN <<[role |-> "user", content |-> e.msg_data.str]>> \o rest
           ELSE IF e.sender = "Bot" /\ ~IsDict(e.msg_data) THEN <<[role |-> "assistant", content |-> e.msg_data.str]>> \o rest
           ELSE rest

\* text.split(): the pieces between runs of spaces, empty pieces dropped
RECURSIVE SplitWhitespace(_)
SplitWhitespace(text) ==
  IF text = <<>> THEN <<>>
  ELSE IF Head(text) = " " THEN SplitWhitespace(Tail(text))
  ELSE LET n == CHOOSE j \in 1..Len(text) : (\A k \in 1..j : text[k] # " ") /\ (j = Len(text) \/ text[j + 1] = " ")
       IN  <<SubSeq(text, 1, n)>> \o SplitWhitespace(SubSeq(text, n + 1, Len(text)))

\* text.split(' '): the pieces between single spaces, empty pieces kept
RECURSIVE Split(_)
Split(text) ==
  IF \A i \in 1..Len(text) : text[i] # " " THEN <<text>>
  ELSE LET i == CHOOSE j \in 1..Len(text) : text[j] = " " /\ \A k \in 1..(j - 1) : text[k] # " "
       IN  <<SubSeq(text, 1, i - 1)>> \o Split(SubSeq(text, i + 1, Len(text)))

\* content[:100] + "..." when the content is longer than 100 characters
content_preview(content) == IF Len(content) > 100 THEN SubSeq(content, 1, 100) \o <<"...">> ELSE content

\* the lines of the sources container: at most the first 3 sources
sources_text(srcs) == [i \in 1..(IF Len(srcs) < 3 THEN Len(srcs) ELSE 3) |-> [n |-> i, score |-> Get(srcs[i], "score", 0), preview |-> content_preview(Get(srcs[i], "content", <<>>))]]

NoSources == <<>>

\* the Chat Display block: how one transcript entry is rendered on a run
RenderEntry(e) ==
  IF e.sender = "You" THEN [class |-> "user-bubble", text |-> e.msg_data.str, sources |-> NoSources]
  ELSE IF IsDict(e.msg_data) /\ "answer" \in DOMAIN e.msg_data THEN [class |-> "bot-bubble", text |-> e.msg_data.answer, sources |-> sources_text(Get(e.msg_data, "sources", <<>>))]
  ELSE IF Contains(e.msg_data.str, <<SunEmoji>>) THEN [class |-> "weather-bubble", text |-> e.msg_data.str, sources |-> NoSources]
  ELSE IF Contains(e.msg_data.str, <<CrossMark>>) THEN [class |-> "error-bubble", text |-> e.msg_data.str, sources |-> NoSources]
  ELSE [class |-> "bot-bubble", text |-> e.msg_data.str, sources |-> NoSources]

ChatDisplay(msgs) == [i \in 1..Len(msgs) |-> RenderEntry(msgs[i])]

\* response.text: the JSON body as the gateway wrote it
JsonText(json) == IF "detail" \in DOMAIN json THEN <<"{\"detail\":\"">> \o json.detail \o <<"\"}">> ELSE <<"{...}">>

\* the requests.Response of a gateway answer
HttpResponse(out) == [kind |-> "response", status_code |-> ToHttp(out).status_code, json |-> ToHttp(out).json, text |-> JsonText(ToHttp(out).json)]

\* requests.post itself may raise: the gateway is not reachable
TransportOutcomes == {Raise(Exc("ConnectionError", <<"Connection refused">>))}

NoResponse == [kind |-> "none"]

NoResult == [none |-> TRUE]

EmptyPlaceholder == [class |-> "empty", text |-> <<>>, sources |-> NoSources]

\* the answers of the remote model to the calls a session causes: the two
\* sample texts, or a failure
ClientModelOutcomes == {o \in ModelOutcomes : FirstText(IF o.kind = "return" THEN o.value ELSE [content |-> <<>>]).kind = "return" => FirstText(o.value).value \in {<<>>, <<"a">>}}

\* the replies of the retrieval service to the client's RAG questions
ClientKbOutcomes == {o \in KbOutcomes(create_kb_request(knowledge_base_id, <<"q">>, DefaultNumResults)) : o.kind = "raise" \/ Get(o.value, "retrievalResults", <<>>) \in {<<>>, <<[content |-> [text |-> <<"a">>], score |-> 2, metadata |-> {<<"source", "s3">>}]>>}}

NoClear == [after |-> FALSE, len |-> 0, rag |-> FALSE]

ClientInit ==
  /\ mode = "Direct Chat"
  /\ messages = <<>>
  /\ pc = "idle"
  /\ user_input = <<>>
  /\ response = NoResponse
  /\ answer = <<>>
  /\ sources = <<>>
  /\ words = <<>>
  /\ idx = 0
  /\ current_text = <<>>
  /\ placeholder = EmptyPlaceholder
  /\ result = NoResult
  /\ display = <<>>
  /\ clearHist = NoClear
  /\ sent = <<>>
  /\ submitted = FALSE

\* every script run starts with fresh locals and no placeholder; `submitted`
\* is what st.form_submit_button returns in the run: True only in a run the
\* Send button started
FreshRun ==
  /\ response' = NoResponse
  /\ answer' = <<>>
  /\ sources' = <<>>
  /\ words' = <<>>
  /\ idx' = 0
  /\ current_text' = <<>>
  /\ placeholder' = EmptyPlaceholder
  /\ result' = NoResult
  /\ sent' = <<>>

\* the user picks another mode in the sidebar: a run that only re-renders
SelectMode(m) ==
  /\ pc = "idle"
  /\ m # mode
  /\ mode' = m
  /\ display' = ChatDisplay(messages)
  /\ FreshRun
  /\ user_input' = <<>>
  /\ submitted' = FALSE
  /\ UNCHANGED <<messages, pc, clearHist, gwVars>>

\* Clear Chat keeping the first entry of the transcript
ClearChatKeepsFirst ==
  /\ pc = "idle"
  /\ messages' = SubSeq(messages, 1, IF Len(messages) > 0 THEN 1 ELSE 0)
  /\ display' = ChatDisplay(messages')
  /\ clearHist' = [after |-> TRUE, len |-> Len(messages), rag |-> \E i \in 1..Len(messages) : messages[i].sender = "Bot" /\ IsDict(messages[i].msg_data)]
  /\ FreshRun
  /\ user_input' = <<>>
  /\ submitted' = FALSE
  /\ UNCHANGED <<mode, pc, gwVars>>

\* the Clear Chat button: the transcript becomes the empty list, then the
\* run renders it
ClearChat ==
  /\ pc = "idle"
  /\ messages' = <<>>
  /\ display' = ChatDisplay(<<>>)
  /\ clearHist' = [after |-> TRUE, len |-> Len(messages), rag |-> \E i \in 1..Len(messages) : messages[i].sender = "Bot" /\ IsDict(messages[i].msg_data)]
  /\ FreshRun
  /\ user_input' = <<>>
  /\ submitted' = FALSE
  /\ UNCHANGED <<mode, pc, gwVars>>

\* the test `submitted and user_input` without its second half: an empty
\* text is appended and sent like any other
SubmitEmptyAppends ==
  /\ pc = "idle"
  /\ <<>> \in UserInputs
  /\ Len(messages) < 2 * MaxTurns
  /\ display' = ChatDisplay(messages)
  /\ messages' = Append(messages, Entry("You", PyStr(<<>>)))
  /\ FreshRun
  /\ user_input' = <<>>
  /\ pc' = "call"
  /\ submitted' = TRUE
  /\ UNCHANGED <<mode, clearHist, gwVars>>

\* the form is submitted with an empty text: `submitted and user_input` is
\* false, the run only re-renders
SubmitEmpty ==
  /\ pc = "idle"
  /\ <<>> \in UserInputs
  /\ display' = ChatDisplay(messages)
  /\ FreshRun
  /\ user_input' = <<>>
  /\ submitted' = TRUE
  /\ UNCHANGED <<mode, messages, pc, clearHist, gwVars>>

\* a submission that calls the gateway without appending the user's entry
SubmitWithoutAppend(text) ==
  /\ pc = "idle"
  /\ text # <<>>
  /\ Len(messages) < 2 * MaxTurns
  /\ display' = ChatDisplay(messages)
  /\ FreshRun
  /\ user_input' = text
  /\ pc' = "call"
  /\ submitted' = TRUE
  /\ UNCHANGED <<mode, messages, clearHist, gwVars>>

\* the form is submitted with a text: the run renders the transcript, then
\* appends the user's entry and creates the placeholder
Submit(text) ==
  /\ pc = "idle"
  /\ text # <<>>
  /\ Len(messages) < 2 * MaxTurns
  /\ display' = ChatDisplay(messages)
  /\ messages' = Append(messages, Entry("You", PyStr(text)))
  /\ FreshRun
  /\ user_input' = text
  /\ pc' = "call"
  /\ submitted' = TRUE
  /\ UNCHANGED <<mode, clearHist, gwVars>>

\* a failure branch of a call_* function: the error bubble is shown and the
\* message is what the function returns
ShowError(error_msg, ret) ==
  /\ placeholder' = [class |-> "error-bubble", text |-> error_msg, sources |-> NoSources]
  /\ result' = ret
  /\ pc' = "append"
  /\ UNCHANGED <<answer, sources, words, idx, current_text>>

\* simulate_typing is entered with the text of a 200 answer
StartTyping(text, srcs) ==
  /\ answer' = text
  /\ sources' = srcs
  /\ words' = Split(text)
  /\ idx' = 0
  /\ current_text' = <<>>
  /\ pc' = "typing"
  /\ UNCHANGED <<placeholder, result>>

\* call_chat_endpoint up to simulate_typing: the history is posted to /chat
\* `modelUps` is what the remote model may answer to the gateway's call.
CallChatEndpoint(modelUps) ==
  /\ pc = "call"
  /\ mode = "Direct Chat"
  /\ LET history == format_messages_for_backend(messages)
         payload == [messages |-> history, temperature |-> creativity, max_tokens |-> max_tokens]
         request == [messages |-> history, system |-> <<>>, temperature |-> creativity, max_tokens |-> max_tokens]
     IN  /\ sent' = Append(sent, [endpoint |-> "/chat", json |-> payload])
         /\ \E o \in TransportOutcomes \cup {Return(HttpResponse(chat_endpoint(request, up).out)) : up \in modelUps} :
              /\ response' = o
              /\ IF o.kind = "raise" THEN ShowError(<<CrossMark, " Connection Error: ">> \o Str(o.exc), PyStr(<<CrossMark, " Connection Error: ">> \o Str(o.exc)))
                 ELSE IF o.value.status_code = 200 THEN StartTyping(Get(o.value.json, "response", <<"No response received">>), <<>>)
                 ELSE ShowError(<<CrossMark, " Error: ", StatusText(o.value.status_code), " - ">> \o o.value.text, PyStr(<<CrossMark, " Error: ", StatusText(o.value.status_code), " - ">> \o o.value.text))
  /\ UNCHANGED <<mode, messages, user_input, display, clearHist, submitted, gwVars>>

\* call_rag_endpoint up to simulate_typing: the raw input is posted to
\* /kb-rag-query.  `kbUps` and `modelUps` are what the
\* two remote services may answer to the gateway's calls.
CallRagEndpoint(kbUps, modelUps) ==
  /\ pc = "call"
  /\ mode = "Knowledge Base RAG"
  /\ LET payload == [query |-> user_input]
     IN  /\ sent' = Append(sent, [endpoint |-> "/kb-rag-query", json |-> payload])
         /\ \E o \in TransportOutcomes \cup {Return(HttpResponse(kb_rag_query(payload, kbUp, modelUp).out)) : kbUp \in kbUps, modelUp \in modelUps} :
              /\ response' = o
              /\ IF o.kind = "raise" THEN ShowError(<<CrossMark, " RAG Connection Error: ">> \o Str(o.exc), [answer |-> <<CrossMark, " RAG Connection Error: ">> \o Str(o.exc), sources |-> <<>>])
                 ELSE IF o.value.status_code = 200 THEN StartTyping(Get(o.value.json, "answer", <<"No answer received">>), Get(o.value.json, "sources", <<>>))
                 ELSE ShowError(<<CrossMark, " RAG Error: ", StatusText(o.value.status_code), " - ">> \o o.value.text, [answer |-> <<CrossMark, " RAG Error: ", StatusText(o.value.status_code), " - ">> \o o.value.text, sources |-> <<>>])
  /\ UNCHANGED <<mode, messages, user_input, display, clearHist, submitted, gwVars>>

\* the text call_weather_endpoint builds from a 200 answer
weather_text(json) ==
  LET weather_data == Get(json, "weather", EmptyDict)
      location == Get(json, "location", <<"Unknown">>)
  IN  IF IsDict(weather_data) /\ "temperature" \in DOMAIN weather_data
      THEN <<SunEmoji, " **Weather in ">> \o location \o <<":**\n", "Temperature: ", weather_data.temperature, "C\n", "Description: ", weather_data.description, "\n", "Humidity: ", weather_data.humidity, "%\n", "Wind Speed: ", weather_data.wind_speed, " km/h">>
      ELSE <<"Weather data for ">> \o location \o <<": ">> \o (IF IsDict(weather_data) THEN <<"{}">> ELSE weather_data.str)

\* call_weather_endpoint: the raw input is posted to /weather
CallWeatherEndpoint ==
  /\ pc = "call"
  /\ mode = "Weather"
  /\ LET payload == [location |-> user_input]
     IN  /\ sent' = Append(sent, [endpoint |-> "/weather", json |-> payload])
         /\ \E o \in TransportOutcomes \cup {Return(HttpResponse(weather_endpoint(payload, up).out)) : up \in WeatherOutcomes} :
              /\ response' = o
              /\ IF o.kind = "raise" THEN ShowError(<<CrossMark, " Weather Connection Error: ">> \o Str(o.exc), PyStr(<<CrossMark, " Weather Connection Error: ">> \o Str(o.exc)))
                 ELSE IF o.value.status_code = 200
                 THEN /\ placeholder' = [class |-> "weather-bubble", text |-> weather_text(o.value.json), sources |-> NoSources]
                      /\ result' = PyStr(weather_text(o.value.json))
                      /\ pc' = "append"
                      /\ UNCHANGED <<answer, sources, words, idx, current_text>>
                 ELSE ShowError(<<CrossMark, " Weather Error: ", StatusText(o.value.status_code), " - ">> \o o.value.text, PyStr(<<CrossMark, " Weather Error: ", StatusText(o.value.status_code), " - ">> \o o.value.text))
  /\ UNCHANGED <<mode, messages, user_input, display, clearHist, submitted, gwVars>>

\* one iteration of the loop of simulate_typing: the next word and a space
\* are added and shown with the cursor
TypeWord ==
  /\ pc = "typing"
  /\ idx < Len(words)
  /\ current_text' = current_text \o words[idx + 1] \o <<" ">>
  /\ placeholder' = [class |-> "bot-bubble", text |-> current_text' \o <<Cursor>>, sources |-> NoSources]
  /\ idx' = idx + 1
  /\ UNCHANGED <<mode, messages, pc, user_input, response, answer, sources, words, result, display, clearHist, sent, submitted, gwVars>>

\* the loop is over: the text is shown without cursor; call_rag_endpoint
\* then shows the sources container when there are sources; the function
\* returns
TypeFinal ==
  /\ pc = "typing"
  /\ idx = Len(words)
  /\ placeholder' = [class |-> "bot-bubble", text |-> answer, sources |-> IF mode = "Knowledge Base RAG" THEN sources_text(sources) ELSE NoSources]
  /\ result' = IF mode = "Knowledge Base RAG" THEN [answer |-> answer, sources |-> sources] ELSE PyStr(answer)
  /\ pc' = "append"
  /\ UNCHANGED <<mode, messages, user_input, response, answer, sources, words, idx, current_text, display, clearHist, sent, submitted, gwVars>>

\* the Bot entry put at the front of the transcript
AppendBotInFront ==
  /\ pc = "append"
  /\ messages' = <<Entry("Bot", result)>> \o messages
  /\ pc' = "idle"
  /\ response' = NoResponse
  /\ answer' = <<>>
  /\ sources' = <<>>
  /\ words' = <<>>
  /\ idx' = 0
  /\ current_text' = <<>>
  /\ result' = NoResult
  /\ clearHist' = NoClear
  /\ UNCHANGED <<mode, user_input, placeholder, display, sent, submitted, gwVars>>

\* st.session_state.messages.append(("Bot", ...)): the run ends
AppendBot ==
  /\ pc = "append"
  /\ messages' = Append(messages, Entry("Bot", result))
  /\ pc' = "idle"
  /\ response' = NoResponse
  /\ answer' = <<>>
  /\ sources' = <<>>
  /\ words' = <<>>
  /\ idx' = 0
  /\ current_text' = <<>>
  /\ result' = NoResult
  /\ clearHist' = NoClear
  /\ UNCHANGED <<mode, user_input, placeholder, display, sent, submitted, gwVars>>

\* a session of up to MaxTurns submissions between clears; the remote model
\* answers with one of two sample texts
ClientNext ==
  \/ \E m \in Modes : SelectMode(m)
  \/ ClearChat
  \/ SubmitEmpty
  \/ \E text \in UserInputs : Submit(text)
  \/ CallChatEndpoint(ClientModelOutcomes)
  \/ CallRagEndpoint(ClientKbOutcomes, ClientModelOutcomes)
  \/ CallWeatherEndpoint
  \/ TypeWord
  \/ TypeFinal
  \/ AppendBot

\* sessions whose every submission starts from an empty transcript; the
\* remote model answers with any text of up to MaxTextLen characters
RevealNext ==
  \/ \E m \in Modes : SelectMode(m)
  \/ ClearChat
  \/ \E text \in UserInputs : Submit(text) /\ messages = <<>>
  \/ CallChatEndpoint(ModelOutcomes)
  \/ CallRagEndpoint(ClientKbOutcomes, ModelOutcomes)
  \/ CallWeatherEndpoint
  \/ TypeWord
  \/ TypeFinal
  \/ AppendBot

(***************************************************************************)
(* Specifications                                                          *)
(***************************************************************************)
Init == GatewayInit /\ ClientInit

\* the gateway, answering the requests of any caller
Spec == Init /\ [][GatewayNext]_vars

\* one client session, its gateway calls answered by the gateway's handlers
ClientSpec == Init /\ [][ClientNext]_vars

\* the reveal of every answer text, one submission at a time
RevealSpec == Init /\ [][RevealNext]_vars

\* the gateway with up to MaxRequests requests in flight
ConcurrentSpec == Init /\ [][ConcurrentNext]_vars

(***************************************************************************)
(* Gateway claims (specification Spec)                                     *)
(***************************************************************************)
\* the remote inference call succeeded: it returned a body whose first
\* content block has a text
RemoteSucceeded(up) == up.kind = "return" /\ "content" \in DOMAIN up.value /\ Len(up.value.content) > 0 /\ "text" \in DOMAIN up.value.content[1]

\* the text of the exception a failed remote call ends with
RemoteExceptionText(up) ==
  IF up.kind = "raise" THEN up.exc.msg
  ELSE IF "content" \notin DOMAIN up.value THEN <<"'content'">>
  ELSE IF Len(up.value.content) = 0 THEN <<"list index out of range">>
  ELSE <<"'text'">>

\* a valid message sequence: not empty, every role user or assistant
ValidMessages(msgs) == msgs # <<>> /\ \A i \in 1..Len(msgs) : msgs[i].role \in {"user", "assistant"}

InvokeModelCalls == {i \in 1..Len(gwCalls) : gwCalls[i].service = "invoke_model"}

\* C1 as stated: /chat answers a successful remote call with status 200 and
\* a non-empty `response`, and a failed remote call (an exception, or a
\* malformed body) with status 500 whose detail contains the exception text,
\* after exactly one remote call.
C1_ChatNonEmptyOrError ==
  (gwRequest.endpoint = "/chat" /\ ValidMessages(gwRequest.request.messages)) =>
    /\ Cardinality(InvokeModelCalls) = 1
    /\ RemoteSucceeded(gwUpstream.model) =>
         /\ gwResponse.status_code = 200
         /\ gwResponse.json.response # <<>>
    /\ ~RemoteSucceeded(gwUpstream.model) =>
         /\ gwResponse.status_code = 500
         /\ Contains(gwResponse.json.detail, RemoteExceptionText(gwUpstream.model))

\* C1 amended: /chat answers a successful remote call with status 200 and a
\* `response` that is exactly the text of the first content block of the
\* remote body, and a failed remote call (an exception, or a malformed body)
\* with status 500 whose detail contains the exception text, after exactly
\* one remote call.
C1_ChatTextOrError ==
  (gwRequest.endpoint = "/chat" /\ ValidMessages(gwRequest.request.messages)) =>
    /\ Cardinality(InvokeModelCalls) = 1
    /\ RemoteSucceeded(gwUpstream.model) =>
         /\ gwResponse.status_code = 200
         /\ DOMAIN gwResponse.json = {"response"}
         /\ gwResponse.json.response = gwUpstream.model.value.content[1].text
    /\ ~RemoteSucceeded(gwUpstream.model) =>
         /\ gwResponse.status_code = 500
         /\ DOMAIN gwResponse.json = {"detail"}
         /\ Contains(gwResponse.json.detail, RemoteExceptionText(gwUpstream.model))

\* a /chat request whose remote call raised has been answered with 500
C1_Witness ==
  /\ gwRequest.endpoint = "/chat"
  /\ ValidMessages(gwRequest.request.messages)
  /\ gwUpstream.model.kind = "raise"
  /\ gwResponse.status_code = 500

\* the payload has every field get_current_weather reads
WellFormedWeather(p) ==
  /\ "current_condition" \in DOMAIN p
  /\ Len(p.current_condition) > 0
  /\ {"temp_C", "weatherDesc", "humidity", "windspeedKmph"} \subseteq DOMAIN p.current_condition[1]
  /\ Len(p.current_condition[1].weatherDesc) > 0
  /\ "value" \in DOMAIN p.current_condition[1].weatherDesc[1]

\* C2 as stated: /weather always answers with status 200; after a network
\* failure `weather` is a string beginning with "Request failed:", after a
\* payload that lacks an expected field (a missing key or an empty list) it
\* is exactly "Could not parse weather data.", and only after a well-formed
\* payload it is the snapshot of temperature, description, humidity and
\* wind_speed.
C2_WeatherNeverRaises ==
  gwRequest.endpoint = "/weather" =>
    /\ gwResponse.status_code = 200
    /\ gwUpstream.weather.kind = "raise" =>
         /\ ~IsDict(gwResponse.json.weather)
         /\ Head(gwResponse.json.weather.str) = "Request failed: "
    /\ (gwUpstream.weather.kind = "return" /\ ~WellFormedWeather(gwUpstream.weather.value)) =>
         gwResponse.json.weather = PyStr(<<"Could not parse weather data.">>)
    /\ (gwUpstream.weather.kind = "return" /\ WellFormedWeather(gwUpstream.weather.value)) =>
         /\ IsDict(gwResponse.json.weather)
         /\ DOMAIN gwResponse.json.weather = {"temperature", "description", "humidity", "wind_speed"}

\* C3: the sources of a successful /kb-rag-query are, element by element and
\* in order, the results /kb-retrieve returns for the same query, the default
\* count and the same reply of the retrieval service.
C3_SourcesMatchRetrieve ==
  (gwRequest.endpoint = "/kb-rag-query" /\ gwResponse.status_code = 200) =>
    LET r == kb_retrieve(gwRequest.request, DefaultNumResults, gwUpstream.kb).out
    IN  /\ r.kind = "return"
        /\ Len(gwResponse.json.sources) = Len(r.value.results)
        /\ \A i \in 1..Len(r.value.results) : gwResponse.json.sources[i] = r.value.results[i]

\* a successful /kb-rag-query with three sources, one of them built from a
\* match that has no field at all
C3_Witness ==
  /\ gwRequest.endpoint = "/kb-rag-query"
  /\ gwResponse.status_code = 200
  /\ Len(gwResponse.json.sources) = 3
  /\ gwUpstream.kb.value.retrievalResults[2] = EmptyDict
  /\ gwUpstream.kb.value.retrievalResults[3] # EmptyDict

\* C4: /kb-retrieve with num_results = N answers every reply of the
\* retrieval service with status 200 and at most N results, one per match
\* and in the order of the matches, each with the match's text, score and
\* metadata, or "" / 0 / {} where the match lacks the field.
C4_RetrieveAtMostN ==
  (gwRequest.endpoint = "/kb-retrieve" /\ gwUpstream.kb.kind = "return") =>
    LET ms == IF "retrievalResults" \in DOMAIN gwUpstream.kb.value THEN gwUpstream.kb.value.retrievalResults ELSE <<>>
    IN  /\ gwResponse.status_code = 200
        /\ Len(gwResponse.json.results) <= gwRequest.num_results
        /\ Len(gwResponse.json.results) = Len(ms)
        /\ \A i \in 1..Len(ms) :
             /\ gwResponse.json.results[i].content = (IF "content" \in DOMAIN ms[i] /\ "text" \in DOMAIN ms[i].content THEN ms[i].content.text ELSE <<>>)
             /\ gwResponse.json.results[i].score = (IF "score" \in DOMAIN ms[i] THEN ms[i].score ELSE 0)
             /\ gwResponse.json.results[i].metadata = (IF "metadata" \in DOMAIN ms[i] THEN ms[i].metadata ELSE {})

\* a /kb-retrieve with num_results = 2 answered with two results, the first
\* built from a match that has no field at all
C4_Witness ==
  /\ gwRequest.endpoint = "/kb-retrieve"
  /\ gwRequest.num_results = 2
  /\ gwResponse.status_code = 200
  /\ Len(gwResponse.json.results) = 2
  /\ gwUpstream.kb.value.retrievalResults[1] = EmptyDict

(***************************************************************************)
(* Client claims (specifications ClientSpec and RevealSpec)                *)
(***************************************************************************)
\* C5: every step leaves the transcript as it was or extends it by appended
\* entries, the earlier entries unchanged and in place; only the Clear Chat
\* step may do otherwise, and it leaves the empty transcript.
C5_AppendOnly == [][IsPrefix(messages, messages') \/ (ClearChat /\ messages' = <<>>)]_vars

\* a second submission has been appended behind the entries of the first
C5_Witness ==
  /\ pc = "idle"
  /\ Len(messages) = 4
  /\ messages[1].sender = "You" /\ messages[2].sender = "Bot"
  /\ messages[3].sender = "You" /\ messages[4].sender = "Bot"

\* C6: after Clear Chat the transcript is empty whatever it held before, it
\* holds only the new user entry during the next submission, and a Direct
\* Chat submission made after the clear sends a history of just the new user
\* message.
C6_ClearEmpties ==
  /\ (clearHist.after /\ pc = "idle") => messages = <<>>
  /\ (clearHist.after /\ pc # "idle") => messages = <<Entry("You", PyStr(user_input))>>
  /\ (clearHist.after /\ sent # <<>> /\ sent[1].endpoint = "/chat") =>
       sent[1].json.messages = <<[role |-> "user", content |-> user_input]>>

\* a transcript of four entries, one of them a RAG answer, was cleared and
\* the next submission has called /chat
C6_Witness ==
  /\ clearHist.after
  /\ clearHist.len = 4
  /\ clearHist.rag
  /\ sent # <<>>
  /\ sent[1].endpoint = "/chat"

\* a Direct Chat submission has called the gateway and is not yet over
ChatCallMade == pc \in {"typing", "append"} /\ mode = "Direct Chat" /\ Len(sent) = 1 /\ sent[1].endpoint = "/chat"

\* C7 as stated: the history sent to /chat has one message per transcript
\* entry, in order, user entries as role "user" and every Bot entry as role
\* "assistant", the new user message last.
C7_FullTranscriptSent ==
  ChatCallMade =>
    LET history == sent[1].json.messages
    IN  /\ Len(history) = Len(messages)
        /\ \A i \in 1..Len(messages) : history[i].role = (IF messages[i].sender = "You" THEN "user" ELSE "assistant")
        /\ history[Len(history)] = [role |-> "user", content |-> user_input]

\* C7 amended: the history sent to /chat has one message per transcript
\* entry that is a user entry or a Bot entry holding plain text, in order,
\* as role "user" and "assistant", the new user message last; the Bot
\* entries that hold a RAG record are left out.
C7_PlainTextEntriesSent ==
  ChatCallMade =>
    LET history == sent[1].json.messages
        kept == SelectSeq(messages, LAMBDA e : e.sender = "You" \/ ~IsDict(e.msg_data))
    IN  /\ Len(history) = Len(kept)
        /\ \A i \in 1..Len(kept) : history[i] = [role |-> (IF kept[i].sender = "You" THEN "user" ELSE "assistant"), content |-> kept[i].msg_data.str]
        /\ history[Len(history)] = [role |-> "user", content |-> user_input]

\* a Direct Chat call made with a transcript that holds a RAG answer: the
\* history sent has the two user messages only
C7_Witness ==
  /\ ChatCallMade
  /\ Len(messages) = 3
  /\ IsDict(messages[2].msg_data)
  /\ Len(sent[1].json.messages) = 2

UserEntry == Entry("You", PyStr(user_input))

\* the one gateway call is the call of the selected mode
ExpectedCall ==
  /\ Len(sent) = 1
  /\ mode = "Direct Chat" => sent[1].endpoint = "/chat"
  /\ mode = "Knowledge Base RAG" => sent[1] = [endpoint |-> "/kb-rag-query", json |-> [query |-> user_input]]
  /\ mode = "Weather" => sent[1] = [endpoint |-> "/weather", json |-> [location |-> user_input]]

C8_Order ==
  /\ pc = "call" =>
       /\ user_input # <<>>
       /\ sent = <<>>
       /\ messages # <<>> /\ messages[Len(messages)] = UserEntry
  /\ pc \in {"typing", "append"} =>
       /\ ExpectedCall
       /\ messages[Len(messages)] = UserEntry
  /\ (pc = "idle" /\ sent # <<>>) =>
       /\ ExpectedCall
       /\ Len(messages) >= 2
       /\ messages[Len(messages) - 1] = UserEntry
       /\ messages[Len(messages)].sender = "Bot"

C8_Steps ==
  /\ (pc = "idle" /\ pc' = "call") => messages' = Append(messages, Entry("You", PyStr(user_input')))
  /\ (pc = "call" /\ pc' # "call") => (messages' = messages /\ Len(sent') = 1)
  /\ (pc \in {"typing", "append"} /\ pc' # "idle") => (messages' = messages /\ sent' = sent)
  /\ (pc = "append" /\ pc' = "idle") =>
       /\ Len(messages') = Len(messages) + 1
       /\ SubSeq(messages', 1, Len(messages)) = messages
       /\ messages'[Len(messages')].sender = "Bot"
       /\ sent' = sent

\* C8: a submission with a text first appends the user's entry, then makes
\* exactly one gateway call, the call of the selected mode with the raw input
\* (RAG, Weather), then appends exactly one Bot entry; the user's entry is in
\* the transcript before the call is made.
C8_OneCallPerSubmission == []C8_Order /\ [][C8_Steps]_vars

\* a RAG submission has made its call and is about to append its Bot entry
C8_Witness ==
  /\ pc = "append"
  /\ mode = "Knowledge Base RAG"
  /\ Len(sent) = 1
  /\ Len(messages) = 3

RECURSIVE JoinWithSpace(_)
JoinWithSpace(ws) == IF ws = <<>> THEN <<>> ELSE IF Len(ws) = 1 THEN ws[1] ELSE ws[1] \o <<" ">> \o JoinWithSpace(Tail(ws))

RECURSIVE EachFollowedBySpace(_)
EachFollowedBySpace(ws) == IF ws = <<>> THEN <<>> ELSE ws[1] \o <<" ">> \o EachFollowedBySpace(Tail(ws))

\* the text of the 200 answer the client holds
ReceivedText == IF mode = "Direct Chat" THEN response.value.json.response ELSE response.value.json.answer

C9_States ==
  /\ pc = "call" => (response = NoResponse /\ placeholder = EmptyPlaceholder)
  /\ pc = "typing" =>
       /\ response.kind = "return" /\ response.value.status_code = 200
       /\ answer = ReceivedText
       /\ Len(words) >= 1
       /\ \A k \in 1..Len(words) : \A j \in 1..Len(words[k]) : words[k][j] # " "
       /\ JoinWithSpace(words) = answer
       /\ idx \in 0..Len(words)
       /\ current_text = EachFollowedBySpace(SubSeq(words, 1, idx))
       /\ idx = 0 => placeholder = EmptyPlaceholder
       /\ idx >= 1 => (placeholder.class = "bot-bubble" /\ placeholder.text = current_text \o <<Cursor>>)
  /\ (pc = "append" /\ mode # "Weather" /\ response.kind = "return" /\ response.value.status_code = 200) =>
       /\ placeholder.class = "bot-bubble"
       /\ placeholder.text = ReceivedText

C9_Steps ==
  /\ (pc = "typing" /\ pc' = "typing") =>
       /\ idx' = idx + 1
       /\ IsPrefix(current_text, current_text')
       /\ Len(current_text') > Len(current_text)
  /\ (pc = "typing" /\ pc' = "append") => idx = Len(words)

\* C9: the reveal starts only when the 200 answer is held in full; its
\* tokens are the pieces of the text between single spaces, none dropped or
\* duplicated; its k-th state shows the first k tokens, each followed by one
\* space, every state strictly extending the one before; there is one state
\* per token, and the last display is exactly the text.
C9_Reveal == []C9_States /\ [][C9_Steps]_vars

\* the reveal of "a a" has shown both tokens
C9_Witness ==
  /\ pc = "typing"
  /\ answer = <<"a", " ", "a">>
  /\ idx = 2
  /\ current_text = <<"a", " ", "a", " ">>

\* the text of a Bot entry
EntryText(e) == IF IsDict(e.msg_data) THEN e.msg_data.answer ELSE e.msg_data.str

\* the gateway call of the submission failed
GatewayFailed == response.kind = "raise" \/ (response.kind = "return" /\ response.value.status_code # 200)

\* C10 as stated: when the gateway call fails, the entry to append holds the
\* status and the literal response text (or the exception text) and is shown
\* in the error style, and every failure entry of the transcript is shown in
\* the error style on every later rendering of the transcript.
C10_FailureShownAsError ==
  /\ (pc = "append" /\ GatewayFailed) =>
       /\ placeholder.class = "error-bubble"
       /\ placeholder.text = EntryText(Entry("Bot", result))
       /\ Head(placeholder.text) = CrossMark
       /\ response.kind = "raise" => Contains(placeholder.text, response.exc.msg)
       /\ response.kind = "return" => Contains(placeholder.text, <<StatusText(response.value.status_code), " - ">> \o response.value.text)
  /\ \A k \in 1..Len(display) :
       (messages[k].sender = "Bot" /\ EntryText(messages[k]) # <<>> /\ Head(EntryText(messages[k])) = CrossMark) => display[k].class = "error-bubble"

(***************************************************************************)
(* C11 (specification ConcurrentSpec)                                      *)
(***************************************************************************)
\* the services a request has called so far, in the order of the calls
Services(r) == [k \in 1..Len(r.calls) |-> r.calls[k].service]

\* chat got no text out of what the model answered
ChatFailed(up) == up.kind = "raise" \/ (up.kind = "return" /\ FirstText(up.value).kind = "raise")

\* FastAPI's answer to an HTTPException(500, ...): a detail and nothing else
ErrorResponse(resp) == resp.status_code = 500 /\ DOMAIN resp.json = {"detail"}

\* C11: within one /kb-rag-query request the inference call is issued only
\* after the retrieval call has answered; if the retrieval raised, no
\* inference call is issued; a failure of the retrieval or of the inference
\* ends the request with one response, HTTP 500 carrying a detail and
\* neither answer nor sources; no response exists before the handler is done
C11_RetrieveThenInvoke ==
  \A i \in Slots :
    LET r == reqs[i]
    IN  r.endpoint = "/kb-rag-query" =>
          /\ Services(r) \in {<<>>, <<"retrieve">>, <<"retrieve", "invoke_model">>}
          /\ r.pc = "retrieve" => r.kb = NoCall /\ Services(r) = <<"retrieve">>
          /\ Len(r.calls) = 2 => r.kb.kind = "return"
          /\ r.kb.kind = "raise" => r.pc = "done" /\ Services(r) = <<"retrieve">> /\ r.model = NoCall /\ ErrorResponse(r.response)
          /\ ChatFailed(r.model) => r.pc = "done" /\ ErrorResponse(r.response)
          /\ r.pc # "done" => r.response = Free.response
          /\ r.pc = "done" /\ r.kb.kind = "return" /\ ~ChatFailed(r.model) => r.response.status_code = 200 /\ DOMAIN r.response.json = {"answer", "sources", "query"}

\* one request ended by a retrieval that raised, without a call of the
\* model, next to one ended by a model that raised after its retrieval
C11_Witness ==
  \E i, j \in Slots :
    /\ reqs[i].endpoint = "/kb-rag-query" /\ reqs[i].pc = "done" /\ reqs[i].kb.kind = "raise"
    /\ Len(reqs[i].calls) = 1 /\ reqs[i].response.status_code = 500
    /\ reqs[j].endpoint = "/kb-rag-query" /\ reqs[j].pc = "done" /\ reqs[j].kb.kind = "return"
    /\ reqs[j].model.kind = "raise" /\ Len(reqs[j].calls) = 2 /\ reqs[j].response.status_code = 500

(***************************************************************************)
(* C12 (specification ConcurrentSpec)                                      *)
(***************************************************************************)
\* what the handler of r's endpoint answers when it runs alone on r's
\* request and is given the replies r's own calls received
AloneOutcome(r) ==
  CASE r.endpoint = "/chat" -> chat_endpoint(r.request, r.model)
    [] r.endpoint = "/kb-retrieve" -> kb_retrieve(r.request, r.num_results, r.kb)
    [] r.endpoint = "/kb-rag-query" -> kb_rag_query(r.request, r.kb, r.model)
    [] r.endpoint = "/weather" -> weather_endpoint(r.request, r.weather)

\* every finished request has made the calls and got the response its
\* handler makes and gives alone, whatever the other requests did meanwhile
C12_States ==
  \A i \in Slots :
    reqs[i].pc = "done" => /\ reqs[i].response = ToHttp(AloneOutcome(reqs[i]).out)
                           /\ reqs[i].calls = AloneOutcome(reqs[i]).calls

\* a step of one request leaves every other request as it was, and a
\* request in flight keeps its endpoint, its fields and the replies it has
C12_Steps ==
  [][\A i \in Slots :
       /\ reqs'[i] # reqs[i] => \A j \in Slots \ {i} : reqs'[j] = reqs[j]
       /\ reqs[i].pc \notin {"free", "done"} =>
            /\ reqs'[i].endpoint = reqs[i].endpoint
            /\ reqs'[i].request = reqs[i].request
            /\ reqs'[i].num_results = reqs[i].num_results
            /\ reqs[i].kb # NoCall => reqs'[i].kb = reqs[i].kb
            /\ reqs[i].model # NoCall => reqs'[i].model = reqs[i].model]_vars

\* C12: for every interleaving of /chat, /kb-retrieve, /kb-rag-query and
\* /weather requests in flight together, the response to a request (and the
\* calls made for it) is the one its handler gives on that request's own
\* fields and the replies to its own calls, and a step of one request
\* changes nothing any other request holds
C12_Stateless == []C12_States /\ C12_Steps

\* two /kb-rag-query requests in flight together with different documents:
\* the first answered with no sources while the second holds one document
C12_Witness ==
  /\ reqs[1].endpoint = "/kb-rag-query" /\ reqs[1].pc = "retrieved" /\ reqs[1].retrieved_docs # <<>>
  /\ reqs[2].endpoint = "/kb-rag-query" /\ reqs[2].pc = "done"
  /\ reqs[2].response.status_code = 200 /\ reqs[2].response.json.sources = <<>>

(***************************************************************************)
(* C13 (specification ClientSpec)                                          *)
(***************************************************************************)
\* at rest the transcript is a sequence of pairs, a user entry followed by
\* a Bot entry
C13_States ==
  pc = "idle" => /\ Len(messages) % 2 = 0
                 /\ \A k \in 1..Len(messages) : messages[k].sender = (IF k % 2 = 1 THEN "You" ELSE "Bot")

\* a run the Send button starts with an empty text leaves the transcript as
\* it was, calls no gateway endpoint and ends at once, whatever the mode
C13_Steps ==
  [][pc = "idle" /\ submitted' /\ user_input' = <<>> =>
       messages' = messages /\ sent' = <<>> /\ pc' = "idle" /\ mode' = mode]_vars

\* C13: a form submission whose text is empty changes nothing: the
\* transcript is unchanged and no gateway operation is called, in any mode;
\* and the transcript at rest has even length and alternates a user entry
\* and a Bot entry
C13_EmptySubmissionNoOp == []C13_States /\ C13_Steps

\* an empty submission has just run in Weather mode on a transcript of one
\* question and its answer
C13_Witness ==
  /\ submitted /\ user_input = <<>> /\ pc = "idle" /\ sent = <<>>
  /\ mode = "Weather" /\ Len(messages) = 2

====
